---- MODULE Spec2Model ----
(***************************************************************************)
(* The sled storage adapter of gluesql: the StoreMut implementation        *)
(* (store_mut.rs) and the IndexMut implementation (index_mut.rs) over one  *)
(* sled tree.  The tree is the variable `store`, a function from keys to   *)
(* serialized values.  sled runs a transaction closure under its exclusive *)
(* concurrency-control lock, so a closure together with its commit or      *)
(* abort is one step for every other handle; what a handle does outside a  *)
(* closure (IndexSync::new, fetch_schema, scan_data) is a step of its own. *)
(***************************************************************************)
EXTENDS Integers, Sequences, FiniteSets, TLC

\* ------------------------------------------------------------------ bounds
\* ids generate_id may issue
MaxId == 2
\* txids the process-wide counter may issue
MaxTxid == 2
\* longest rows / keys list of one DML call
MaxList == 2

Handles == {1, 2}
Tables == {"t"}
IndexNames == {"ix_a", "ix_b"}
\* an index expression is a column reference
Exprs == {"a", "b"}
\* rows as Vec<Value>; the one-column row has no column b
Rows == {<<1, 1>>, <<2, 1>>, <<1>>}
ColumnDefs == <<"a", "b">>

\* ------------------------------------------------------------- key codec
Key(kind, table, name, val, id) ==
    [kind |-> kind, table |-> table, name |-> name, val |-> val, id |-> id]

\* format!("schema/{}", table_name)
SchemaKey(t) == Key("schema", t, "", 0, 0)

\* "data/<table>/" followed by id.to_be_bytes()
DataKey(t, id) == Key("data", t, "", 0, id)

\* index/<table>/<index-name>/<encoded-value>/<row-id>
IndexKey(t, name, val, id) == Key("index", t, name, val, id)

\* key::temp_schema(txid, table_name)
TempSchemaKey(txid, t) == Key("temp_schema", t, "", 0, txid)

\* the reserved key of the global lock
LockKey == Key("lock", "", "", 0, 0)

\* ---------------------------------------------------------- serialization
\* bincode is not self-describing: bytes written for one type do not read
\* back as another.  A value carries the type it was written as.
Serialize(ty, v) == [ty |-> ty, v |-> v]

Deserialize(ty, bytes) ==
    IF bytes.ty = ty THEN [ok |-> TRUE, v |-> bytes.v]
                     ELSE [ok |-> FALSE, v |-> bytes.v]

\* schema_key.as_bytes(): the key itself as the value
KeyBytes(k) == [ty |-> "bytes", v |-> k]

\* ----------------------------------------------------------------- store
EmptyStore == [k \in {} |-> 0]

Has(s, k) == k \in DOMAIN s

\* tree.insert(key, value)
Put(s, k, v) == [x \in (DOMAIN s) \cup {k} |-> IF x = k THEN v ELSE s[x]]

\* tree.remove(key)
Del(s, k) == [x \in (DOMAIN s) \ {k} |-> s[x]]

\* scan_prefix("data/<table>/")
DataKeys(s, t) == {k \in DOMAIN s : k.kind = "data" /\ k.table = t}

IndexKeys(s, t) == {k \in DOMAIN s : k.kind = "index" /\ k.table = t}

TempKeys(s) == {k \in DOMAIN s : k.kind = "temp_schema"}

\* ---------------------------------------------------------------- schema
SchemaIndex(name, expr) == [name |-> name, expr |-> expr, order |-> "Both"]

MkSchema(t, indexes) ==
    [table_name |-> t, column_defs |-> ColumnDefs, indexes |-> indexes]

Declares(indexes, name) == \E i \in 1..Len(indexes) : indexes[i].name = name

\* ------------------------------------------------------- snapshot record
\* An Option is a sequence of length 0 or 1.
SnapshotNew(v) ==
    [cur |-> <<v>>, created_by |-> 0, old |-> <<>>, deleted_by |-> 0]

\* delete(txid) -> (record', previous value?)
SnapshotDelete(snap, txid) ==
    [snapshot |-> [cur |-> <<>>, created_by |-> snap.created_by,
                   old |-> IF snap.cur # <<>> THEN snap.cur ELSE snap.old,
                   deleted_by |-> txid],
     value |-> snap.cur]

\* update(txid, new) -> record'
SnapshotUpdate(snap, txid, new) ==
    [snap EXCEPT !.cur = <<new>>, !.created_by = txid]

\* ------------------------------------------------------------ evaluation
\* evaluating a column reference against a row
Evaluate(expr, row) ==
    LET col == IF expr = "a" THEN 1 ELSE 2
    IN  IF col <= Len(row) THEN [ok |-> TRUE, v |-> row[col]]
                           ELSE [ok |-> FALSE, v |-> 0]

\* ------------------------------------------------------------ index sync
\* the value of an index entry: the row key
IndexValue(data_key) == KeyBytes(data_key)

\* insert_index(I, row_key, row)
InsertIndex(s, t, index, data_key, row) ==
    LET e == Evaluate(index.expr, row)
    IN  IF ~e.ok THEN [err |-> "EvaluateError", s |-> s]
        ELSE [err |-> "Ok",
              s |-> Put(s, IndexKey(t, index.name, e.v, data_key.id),
                        IndexValue(data_key))]

\* delete_index(I, row_key, row)
DeleteIndex(s, t, index, data_key, row) ==
    LET e == Evaluate(index.expr, row)
    IN  IF ~e.ok THEN [err |-> "EvaluateError", s |-> s]
        ELSE [err |-> "Ok",
              s |-> Del(s, IndexKey(t, index.name, e.v, data_key.id))]

\* insert(tree, row_key, row): every index of the schema
RECURSIVE IndexSyncInsert(_, _, _, _, _)
IndexSyncInsert(s, t, indexes, data_key, row) ==
    IF indexes = <<>> THEN [err |-> "Ok", s |-> s]
    ELSE LET r == InsertIndex(s, t, Head(indexes), data_key, row)
         IN  IF r.err # "Ok" THEN r
             ELSE IndexSyncInsert(r.s, t, Tail(indexes), data_key, row)

\* delete(tree, row_key, row): every index of the schema
RECURSIVE IndexSyncDelete(_, _, _, _, _)
IndexSyncDelete(s, t, indexes, data_key, row) ==
    IF indexes = <<>> THEN [err |-> "Ok", s |-> s]
    ELSE LET r == DeleteIndex(s, t, Head(indexes), data_key, row)
         IN  IF r.err # "Ok" THEN r
             ELSE IndexSyncDelete(r.s, t, Tail(indexes), data_key, row)

\* update(tree, row_key, old_row, new_row): an entry whose value is unchanged
\* is left alone, otherwise the old entry is deleted and the new one inserted
RECURSIVE IndexSyncUpdate(_, _, _, _, _, _)
IndexSyncUpdate(s, t, indexes, data_key, old_row, new_row) ==
    IF indexes = <<>> THEN [err |-> "Ok", s |-> s]
    ELSE LET index == Head(indexes)
             o == Evaluate(index.expr, old_row)
             n == Evaluate(index.expr, new_row)
         IN  IF ~o.ok \/ ~n.ok THEN [err |-> "EvaluateError", s |-> s]
             ELSE IF o.v = n.v
                  THEN IndexSyncUpdate(s, t, Tail(indexes), data_key,
                                       old_row, new_row)
                  ELSE IndexSyncUpdate(
                         Put(Del(s, IndexKey(t, index.name, o.v, data_key.id)),
                             IndexKey(t, index.name, n.v, data_key.id),
                             IndexValue(data_key)),
                         t, Tail(indexes), data_key, old_row, new_row)

\* the schema reader of the persisted layout: the value under schema/<table>
\* is a Snapshot Record and the reader unwraps it
ReadSchema(s, t) ==
    IF ~Has(s, SchemaKey(t))
    THEN [err |-> "Ok", found |-> FALSE, schema |-> <<>>]
    ELSE LET d == Deserialize("Snapshot", s[SchemaKey(t)])
         IN  IF ~d.ok
             THEN [err |-> "Serialization", found |-> TRUE, schema |-> <<>>]
             ELSE [err |-> "Ok", found |-> TRUE, schema |-> d.v.cur]

\* IndexSync::new(tree, table_name): the indexes of the committed schema
IndexSyncNew(s, t) ==
    LET r == ReadSchema(s, t)
    IN  IF r.err # "Ok" THEN [err |-> r.err, indexes |-> <<>>]
        ELSE IF ~r.found THEN [err |-> "TableNotFound", indexes |-> <<>>]
        ELSE IF r.schema = <<>>
             THEN [err |-> "ConflictTableNotFound", indexes |-> <<>>]
             ELSE [err |-> "Ok", indexes |-> r.schema[1].indexes]

\* scan_data(tree, table_name): every (key, row) under data/<table>/, in key
\* order
RECURSIVE ScanFrom(_, _, _)
ScanFrom(s, t, ks) ==
    IF ks = {} THEN [err |-> "Ok", rows |-> <<>>]
    ELSE LET k == CHOOSE x \in ks : \A y \in ks : x.id <= y.id
             d == Deserialize("Row", s[k])
             rest == ScanFrom(s, t, ks \ {k})
         IN  IF ~d.ok \/ rest.err # "Ok"
             THEN [err |-> "Serialization", rows |-> <<>>]
             ELSE [err |-> "Ok", rows |-> <<<<k, d.v>>>> \o rest.rows]

ScanData(s, t) == ScanFrom(s, t, DataKeys(s, t))

\* ----------------------------------------------------------------- state
VARIABLES
    store,        \* the sled tree
    idCounter,    \* sled's generate_id source: the last id issued
    txidCounter,  \* the process-wide transaction id counter
    lockLive,     \* whether the token under the lock key is live per `state`
    txn,          \* the handle whose transaction closure holds sled's
                  \* concurrency control, 0 when none does
    pc,           \* per handle: "idle" or the call it is inside
    loc,          \* per handle: the locals of its call
    last          \* the outcome of the call that returned in the last step

vars == <<store, idCounter, txidCounter, lockLive, txn, pc, loc, last>>

NoLoc ==
    [table |-> "", name |-> "", expr |-> "", indexes |-> <<>>, rows |-> <<>>,
     txid |-> 0, saw |-> "", first |-> 0]

\* what a call returned (res) and what is recorded of its arguments (f1, f2,
\* n, same)
Outcome(h, op, name, res, f1, f2, n) ==
    [h |-> h, op |-> op, name |-> name, res |-> res, f1 |-> f1, f2 |-> f2,
     n |-> n, same |-> FALSE]

NoCall == Outcome(0, "", "", "", FALSE, FALSE, 0)

\* sequences over S of length 1..n
RECURSIVE SeqsUpTo(_, _)
SeqsUpTo(S, n) ==
    IF n = 0 THEN {}
    ELSE {<<x>> : x \in S}
         \cup {<<x>> \o q : x \in S, q \in SeqsUpTo(S, n - 1)}

RowLists == SeqsUpTo(Rows, MaxList)

\* the row keys a caller may hold: of rows stored now, earlier or never
CallerKeys(t) == {DataKey(t, i) : i \in 1..MaxId}

UpdateLists(t) == SeqsUpTo(CallerKeys(t) \X Rows, MaxList)

KeyLists(t) == SeqsUpTo(CallerKeys(t), MaxList)

\* the schemas a database opened by SledStorage::new may already hold
InitIndexes ==
    {<<>>, <<SchemaIndex("ix_a", "a")>>,
     <<SchemaIndex("ix_a", "a"), SchemaIndex("ix_b", "b")>>}

InitStores ==
    {EmptyStore}
    \cup {Put(EmptyStore, SchemaKey(t),
              Serialize("Snapshot", SnapshotNew(MkSchema(t, ix)))) :
          t \in Tables, ix \in InitIndexes}

Init ==
    /\ store \in InitStores
    /\ idCounter = 0
    /\ txidCounter = 0
    /\ lockLive = FALSE
    /\ txn = 0
    /\ pc = [h \in Handles |-> "idle"]
    /\ loc = [h \in Handles |-> NoLoc]
    /\ last = NoCall

\* a call returns: the handle is idle again and holds no locals
Return(h, outcome) ==
    /\ pc' = [pc EXCEPT ![h] = "idle"]
    /\ loc' = [loc EXCEPT ![h] = NoLoc]
    /\ last' = outcome

\* a call goes on to its transaction
Goto(h, label, locals) ==
    /\ pc' = [pc EXCEPT ![h] = label]
    /\ loc' = [loc EXCEPT ![h] = locals]
    /\ last' = NoCall

\* tree.transaction(closure): the closure's writes are applied when it returns
\* Ok and dropped when it aborts
Transaction(r) == store' = IF r.err = "Ok" THEN r.s ELSE store

\* ------------------------------------------------------------ insert_data
\* the closure as built without the index feature: the row is written and
\* index_sync.insert is not called
RECURSIVE InsertRowsUnindexed(_, _, _, _, _)
InsertRowsUnindexed(s, id, t, indexes, rows) ==
    IF rows = <<>> THEN [err |-> "Ok", s |-> s, id |-> id]
    ELSE InsertRowsUnindexed(
             Put(s, DataKey(t, id + 1), Serialize("Row", Head(rows))),
             id + 1, t, indexes, Tail(rows))

\* the closure of insert_data: for each row a fresh id, the index entries,
\* then the row
RECURSIVE InsertRows(_, _, _, _, _)
InsertRows(s, id, t, indexes, rows) ==
    IF rows = <<>> THEN [err |-> "Ok", s |-> s, id |-> id]
    ELSE LET key == DataKey(t, id + 1)
             value == Serialize("Row", Head(rows))
             r == IndexSyncInsert(s, t, indexes, key, Head(rows))
         IN  IF r.err # "Ok" THEN [err |-> r.err, s |-> s, id |-> id + 1]
             ELSE InsertRows(Put(r.s, key, value), id + 1, t, indexes,
                             Tail(rows))

\* IndexSync::new, outside the transaction
insert_data_new(h, t) ==
    /\ pc[h] = "idle"
    /\ txn = 0
    /\ LET r == IndexSyncNew(store, t)
       IN  IF r.err # "Ok"
           THEN Return(h, Outcome(h, "insert_data", "", r.err, FALSE, FALSE, 0))
           ELSE Goto(h, "insert_data",
                     [NoLoc EXCEPT !.table = t, !.indexes = r.indexes])
    /\ UNCHANGED <<store, idCounter, txidCounter, lockLive, txn>>

\* insert_data whose loop writes to the tree outside a transaction: what was
\* written before a failing row stays
insert_data_unrolled(h, rows) ==
    /\ pc[h] = "insert_data"
    /\ txn = 0
    /\ idCounter + Len(rows) <= MaxId
    /\ LET r == InsertRows(store, idCounter, loc[h].table, loc[h].indexes, rows)
       IN  /\ store' = r.s
           /\ idCounter' = r.id
           /\ Return(h, Outcome(h, "insert_data", "", r.err, FALSE, FALSE,
                                r.id - idCounter))
    /\ UNCHANGED <<txidCounter, lockLive, txn>>

insert_data(h, rows) ==
    /\ pc[h] = "insert_data"
    /\ txn = 0
    /\ idCounter + Len(rows) <= MaxId
    /\ LET r == InsertRows(store, idCounter, loc[h].table, loc[h].indexes, rows)
       IN  /\ Transaction(r)
           /\ idCounter' = r.id
           /\ Return(h, Outcome(h, "insert_data", "", r.err, FALSE, FALSE,
                                r.id - idCounter))
    /\ UNCHANGED <<txidCounter, lockLive, txn>>

\* the store reports a conflict after the closure has run: the writes of the
\* view are dropped and the closure will run again.  The ids generate_id
\* issued are not part of the view.  `first` keeps the value of the id source
\* before the first run.
insert_data_conflict(h, rows) ==
    /\ pc[h] \in {"insert_data", "insert_data_retry"}
    /\ pc[h] = "insert_data_retry" => rows = loc[h].rows
    /\ txn = 0
    /\ idCounter + Len(rows) < MaxId
    /\ LET r == InsertRows(store, idCounter, loc[h].table, loc[h].indexes, rows)
       IN  /\ r.err = "Ok"
           /\ idCounter' = r.id
    /\ pc' = [pc EXCEPT ![h] = "insert_data_retry"]
    /\ loc' = [loc EXCEPT ![h].rows = rows,
                          ![h].first = IF pc[h] = "insert_data"
                                       THEN idCounter ELSE loc[h].first]
    /\ last' = NoCall
    /\ UNCHANGED <<store, txidCounter, lockLive, txn>>

\* the ids are drawn once, before the first run, and the closure that runs
\* again writes under the same ids
insert_data_retried_same_ids(h) ==
    /\ pc[h] = "insert_data_retry"
    /\ txn = 0
    /\ LET r == InsertRows(store, loc[h].first, loc[h].table, loc[h].indexes,
                           loc[h].rows)
       IN  /\ Transaction(r)
           /\ Return(h, Outcome(h, "insert_data", "", r.err, TRUE, FALSE,
                                r.id - loc[h].first))
    /\ UNCHANGED <<idCounter, txidCounter, lockLive, txn>>

\* the closure runs again and the transaction commits or aborts
insert_data_retried(h) ==
    /\ pc[h] = "insert_data_retry"
    /\ txn = 0
    /\ idCounter + Len(loc[h].rows) <= MaxId
    /\ LET r == InsertRows(store, idCounter, loc[h].table, loc[h].indexes,
                           loc[h].rows)
       IN  /\ Transaction(r)
           /\ idCounter' = r.id
           /\ Return(h, Outcome(h, "insert_data", "", r.err, TRUE, FALSE,
                                r.id - idCounter))
    /\ UNCHANGED <<txidCounter, lockLive, txn>>

\* ------------------------------------------------------------ update_data
\* the closure as built without the index feature: tree.insert per pair, no
\* check of the prior value
RECURSIVE UpdateRowsUnchecked(_, _, _, _)
UpdateRowsUnchecked(s, t, indexes, pairs) ==
    IF pairs = <<>> THEN [err |-> "Ok", s |-> s]
    ELSE UpdateRowsUnchecked(
             Put(s, Head(pairs)[1], Serialize("Row", Head(pairs)[2])),
             t, indexes, Tail(pairs))

\* the closure with the index entries rebuilt in the wrong order: the entries
\* of the new row are inserted, then the entries of the old row are deleted
RECURSIVE UpdateRowsReindex(_, _, _, _)
UpdateRowsReindex(s, t, indexes, pairs) ==
    IF pairs = <<>> THEN [err |-> "Ok", s |-> s]
    ELSE LET key == Head(pairs)[1]
             new_row == Head(pairs)[2]
         IN  IF ~Has(s, key)
             THEN [err |-> "ConflictOnEmptyIndexValueUpdate", s |-> s]
             ELSE LET ins == IndexSyncInsert(
                                 Put(s, key, Serialize("Row", new_row)),
                                 t, indexes, key, new_row)
                      del == IndexSyncDelete(ins.s, t, indexes, key, s[key].v)
                  IN  IF ins.err # "Ok" THEN ins
                      ELSE IF del.err # "Ok" THEN del
                      ELSE UpdateRowsReindex(del.s, t, indexes, Tail(pairs))

\* the closure of update_data: swap the new value in, fail on a missing
\* prior value, then update the index entries
RECURSIVE UpdateRows(_, _, _, _)
UpdateRows(s, t, indexes, pairs) ==
    IF pairs = <<>> THEN [err |-> "Ok", s |-> s]
    ELSE LET key == Head(pairs)[1]
             new_row == Head(pairs)[2]
             new_value == Serialize("Row", new_row)
         IN  IF ~Has(s, key)
             THEN [err |-> "ConflictOnEmptyIndexValueUpdate", s |-> s]
             ELSE LET old == Deserialize("Row", s[key])
                      r == IndexSyncUpdate(Put(s, key, new_value), t, indexes,
                                           key, old.v, new_row)
                  IN  IF ~old.ok THEN [err |-> "Serialization", s |-> s]
                      ELSE IF r.err # "Ok" THEN r
                      ELSE UpdateRows(r.s, t, indexes, Tail(pairs))

\* some pair's row key has no stored row
MissingKey(s, pairs) == \E i \in 1..Len(pairs) : ~Has(s, pairs[i][1])

FirstMissing(s, pairs) ==
    IF ~MissingKey(s, pairs) THEN 0
    ELSE CHOOSE i \in 1..Len(pairs) :
             /\ ~Has(s, pairs[i][1])
             /\ \A j \in 1..(i - 1) : Has(s, pairs[j][1])

\* every pair before the first missing key is processed without error: its
\* stored row and its new row evaluate under every index
PrefixProcessed(s, indexes, pairs) ==
    \A j \in 1..(FirstMissing(s, pairs) - 1) :
        \A i \in 1..Len(indexes) :
            /\ Deserialize("Row", s[pairs[j][1]]).ok
            /\ Evaluate(indexes[i].expr, s[pairs[j][1]].v).ok
            /\ Evaluate(indexes[i].expr, pairs[j][2]).ok

\* every pair's new row is the row stored under its key
SameRows(s, pairs) ==
    \A i \in 1..Len(pairs) :
        /\ Has(s, pairs[i][1])
        /\ s[pairs[i][1]] = Serialize("Row", pairs[i][2])

update_data_new(h, t) ==
    /\ pc[h] = "idle"
    /\ txn = 0
    /\ LET r == IndexSyncNew(store, t)
       IN  IF r.err # "Ok"
           THEN Return(h, Outcome(h, "update_data", "", r.err, FALSE, FALSE, 0))
           ELSE Goto(h, "update_data",
                     [NoLoc EXCEPT !.table = t, !.indexes = r.indexes])
    /\ UNCHANGED <<store, idCounter, txidCounter, lockLive, txn>>

update_data(h, pairs) ==
    /\ pc[h] = "update_data"
    /\ txn = 0
    /\ LET r == UpdateRows(store, loc[h].table, loc[h].indexes, pairs)
           missing == MissingKey(store, pairs)
       IN  /\ Transaction(r)
           /\ Return(h, [Outcome(h, "update_data", "", r.err, missing,
                                 missing /\ PrefixProcessed(store,
                                               loc[h].indexes, pairs),
                                 FirstMissing(store, pairs))
                         EXCEPT !.same = SameRows(store, pairs)])
    /\ UNCHANGED <<idCounter, txidCounter, lockLive, txn>>

\* ------------------------------------------------------------ delete_data
\* the closure without the check of the removed value: an absent key is
\* skipped
RECURSIVE DeleteRowsUnchecked(_, _, _, _)
DeleteRowsUnchecked(s, t, indexes, keys) ==
    IF keys = <<>> THEN [err |-> "Ok", s |-> s]
    ELSE LET key == Head(keys)
         IN  IF ~Has(s, key)
             THEN DeleteRowsUnchecked(s, t, indexes, Tail(keys))
             ELSE LET r == IndexSyncDelete(Del(s, key), t, indexes, key,
                                           s[key].v)
                  IN  IF r.err # "Ok" THEN r
                      ELSE DeleteRowsUnchecked(r.s, t, indexes, Tail(keys))

\* the closure of delete_data: remove the row, fail on an absent key, then
\* delete its index entries
RECURSIVE DeleteRows(_, _, _, _)
DeleteRows(s, t, indexes, keys) ==
    IF keys = <<>> THEN [err |-> "Ok", s |-> s]
    ELSE LET key == Head(keys)
         IN  IF ~Has(s, key)
             THEN [err |-> "ConflictOnEmptyIndexValueDelete", s |-> s]
             ELSE LET row == Deserialize("Row", s[key])
                      r == IndexSyncDelete(Del(s, key), t, indexes, key, row.v)
                  IN  IF ~row.ok THEN [err |-> "Serialization", s |-> s]
                      ELSE IF r.err # "Ok" THEN r
                      ELSE DeleteRows(r.s, t, indexes, Tail(keys))

\* some key of the list has no stored row when its turn comes: it is not in
\* the store, or it is an earlier key of the list again
AbsentAt(s, keys, i) ==
    \/ ~Has(s, keys[i])
    \/ \E j \in 1..(i - 1) : keys[j] = keys[i]

AbsentWhenProcessed(s, keys) == \E i \in 1..Len(keys) : AbsentAt(s, keys, i)

\* the place of the first such key, 0 when there is none
FirstAbsent(s, keys) ==
    IF ~AbsentWhenProcessed(s, keys) THEN 0
    ELSE CHOOSE i \in 1..Len(keys) :
             /\ AbsentAt(s, keys, i)
             /\ \A j \in 1..(i - 1) : ~AbsentAt(s, keys, j)

\* the first such key is stored, and is an earlier key of the list again
RepeatedKey(s, keys) ==
    /\ AbsentWhenProcessed(s, keys)
    /\ Has(s, keys[FirstAbsent(s, keys)])

delete_data_new(h, t) ==
    /\ pc[h] = "idle"
    /\ txn = 0
    /\ LET r == IndexSyncNew(store, t)
       IN  IF r.err # "Ok"
           THEN Return(h, Outcome(h, "delete_data", "", r.err, FALSE, FALSE, 0))
           ELSE Goto(h, "delete_data",
                     [NoLoc EXCEPT !.table = t, !.indexes = r.indexes])
    /\ UNCHANGED <<store, idCounter, txidCounter, lockLive, txn>>

delete_data(h, keys) ==
    /\ pc[h] = "delete_data"
    /\ txn = 0
    /\ LET r == DeleteRows(store, loc[h].table, loc[h].indexes, keys)
       IN  /\ Transaction(r)
           /\ Return(h, Outcome(h, "delete_data", "", r.err,
                                AbsentWhenProcessed(store, keys),
                                RepeatedKey(store, keys),
                                FirstAbsent(store, keys)))
    /\ UNCHANGED <<idCounter, txidCounter, lockLive, txn>>

\* ---------------------------------------------- insert / delete schema
\* the schemas a caller may pass to insert_schema
CallerSchemas == {MkSchema(t, ix) : t \in Tables, ix \in InitIndexes}

\* a single-key write of bincode::serialize(schema)
insert_schema(h, schema) ==
    /\ pc[h] = "idle"
    /\ txn = 0
    /\ store' = Put(store, SchemaKey(schema.table_name),
                    Serialize("Schema", schema))
    /\ Return(h, Outcome(h, "insert_schema", "", "Ok", FALSE, FALSE, 0))
    /\ UNCHANGED <<idCounter, txidCounter, lockLive, txn>>

\* delete_schema without the scan of data/<table>/: only schema/<table> is
\* removed
delete_schema_keeps_rows(h, t) ==
    /\ pc[h] = "idle"
    /\ txn = 0
    /\ store' = Del(store, SchemaKey(t))
    /\ Return(h, Outcome(h, "delete_schema", "", "Ok",
                         /\ Has(store, SchemaKey(t))
                         /\ store[SchemaKey(t)].ty = "Schema",
                         FALSE, Cardinality(DataKeys(store, t))))
    /\ UNCHANGED <<idCounter, txidCounter, lockLive, txn>>

\* delete_schema that also removes the index entries of the table
delete_schema_cascade(h, t) ==
    /\ pc[h] = "idle"
    /\ txn = 0
    /\ store' = [k \in (DOMAIN store)
                         \ (DataKeys(store, t) \cup IndexKeys(store, t)
                              \cup {SchemaKey(t)})
                   |-> store[k]]
    /\ Return(h, Outcome(h, "delete_schema", "", "Ok",
                         /\ Has(store, SchemaKey(t))
                         /\ store[SchemaKey(t)].ty = "Schema",
                         FALSE, Cardinality(DataKeys(store, t))))
    /\ UNCHANGED <<idCounter, txidCounter, lockLive, txn>>

\* removes every key under data/<table>/ and then schema/<table>
delete_schema(h, t) ==
    /\ pc[h] = "idle"
    /\ txn = 0
    /\ store' = [k \in (DOMAIN store) \ (DataKeys(store, t) \cup {SchemaKey(t)})
                   |-> store[k]]
    /\ Return(h, Outcome(h, "delete_schema", "", "Ok",
                         /\ Has(store, SchemaKey(t))
                         /\ store[SchemaKey(t)].ty = "Schema",
                         FALSE, Cardinality(DataKeys(store, t))))
    /\ UNCHANGED <<idCounter, txidCounter, lockLive, txn>>

\* ------------------------------------------------- calls to create_index
CreateLabels ==
    {"StoreMut_create_index", "IndexMut_create_index",
     "IndexMut_create_index_txn"}

\* the handles inside a create_index call for the same table and index name
SameCreate(h, t, name) ==
    {g \in Handles \ {h} :
        pc[g] \in CreateLabels /\ loc[g].table = t /\ loc[g].name = name}

\* a create_index call returns; when it has committed, the calls for the
\* same table and index name that are still running have seen a commit
ReturnCreate(h, impl, res) ==
    /\ pc' = [pc EXCEPT ![h] = "idle"]
    /\ loc' = [g \in Handles |->
                 IF g = h THEN NoLoc
                 ELSE IF res = "Ok" /\ g \in SameCreate(h, loc[h].table,
                                                        loc[h].name)
                 THEN [loc[g] EXCEPT !.saw = impl]
                 ELSE loc[g]]
    /\ last' = Outcome(h, impl, loc[h].name, res, loc[h].saw # "",
                       loc[h].saw = "IndexMut::create_index", 0)

\* for each scanned row, insert_index(index, data_key, row)
RECURSIVE InsertIndexRows(_, _, _, _)
InsertIndexRows(s, t, index, rows) ==
    IF rows = <<>> THEN [err |-> "Ok", s |-> s]
    ELSE LET r == InsertIndex(s, t, index, Head(rows)[1], Head(rows)[2])
         IN  IF r.err # "Ok" THEN r
             ELSE InsertIndexRows(r.s, t, index, Tail(rows))

\* for each scanned row, delete_index(index, data_key, row)
RECURSIVE DeleteIndexRows(_, _, _, _)
DeleteIndexRows(s, t, index, rows) ==
    IF rows = <<>> THEN [err |-> "Ok", s |-> s]
    ELSE LET r == DeleteIndex(s, t, index, Head(rows)[1], Head(rows)[2])
         IN  IF r.err # "Ok" THEN r
             ELSE DeleteIndexRows(r.s, t, index, Tail(rows))

\* for each scanned row, index_sync.insert(tree, data_key, row)
RECURSIVE IndexSyncInsertRows(_, _, _, _)
IndexSyncInsertRows(s, t, indexes, rows) ==
    IF rows = <<>> THEN [err |-> "Ok", s |-> s]
    ELSE LET r == IndexSyncInsert(s, t, indexes, Head(rows)[1], Head(rows)[2])
         IN  IF r.err # "Ok" THEN r
             ELSE IndexSyncInsertRows(r.s, t, indexes, Tail(rows))

\* for each scanned row, index_sync.delete(tree, data_key, row)
RECURSIVE IndexSyncDeleteRows(_, _, _, _)
IndexSyncDeleteRows(s, t, indexes, rows) ==
    IF rows = <<>> THEN [err |-> "Ok", s |-> s]
    ELSE LET r == IndexSyncDelete(s, t, indexes, Head(rows)[1], Head(rows)[2])
         IN  IF r.err # "Ok" THEN r
             ELSE IndexSyncDeleteRows(r.s, t, indexes, Tail(rows))

\* the indexes of a schema without those named `name`
RECURSIVE WithoutName(_, _)
WithoutName(indexes, name) ==
    IF indexes = <<>> THEN <<>>
    ELSE IF Head(indexes).name = name THEN WithoutName(Tail(indexes), name)
    ELSE <<Head(indexes)>> \o WithoutName(Tail(indexes), name)

\* the first index of a schema named `name`
FirstNamed(indexes, name) ==
    indexes[CHOOSE i \in 1..Len(indexes) :
                /\ indexes[i].name = name
                /\ \A j \in 1..(i - 1) : indexes[j].name # name]

\* --------------------------------------------- StoreMut::create_index
\* fetch_schema, the name check, the new schema and scan_data, all outside
\* the transaction
StoreMut_create_index_fetch(h, t, name, expr) ==
    /\ pc[h] = "idle"
    /\ txn = 0
    /\ LET f == ReadSchema(store, t)
           rows == ScanData(store, t)
           out(res) ==
               Return(h, Outcome(h, "StoreMut::create_index", name, res,
                                 FALSE, FALSE, 0))
       IN  IF f.err # "Ok" THEN out(f.err)
           ELSE IF f.schema = <<>> THEN out("TableNotFound")
           ELSE IF Declares(f.schema[1].indexes, name)
                THEN out("IndexNameAlreadyExists")
           ELSE IF rows.err # "Ok" THEN out(rows.err)
           ELSE Goto(h, "StoreMut_create_index",
                    [NoLoc EXCEPT
                       !.table = t, !.name = name, !.expr = expr,
                       !.indexes = Append(f.schema[1].indexes,
                                          SchemaIndex(name, expr)),
                       !.rows = rows.rows])
    /\ UNCHANGED <<store, idCounter, txidCounter, lockLive, txn>>

\* the transaction: the serialized schema, then index_sync.insert per row
StoreMut_create_index(h) ==
    /\ pc[h] = "StoreMut_create_index"
    /\ txn = 0
    /\ LET t == loc[h].table
           schema == MkSchema(t, loc[h].indexes)
           r == IndexSyncInsertRows(
                    Put(store, SchemaKey(t), Serialize("Schema", schema)),
                    t, loc[h].indexes, loc[h].rows)
       IN  /\ Transaction(r)
           /\ ReturnCreate(h, "StoreMut::create_index", r.err)
    /\ UNCHANGED <<idCounter, txidCounter, lockLive, txn>>

\* ----------------------------------------------- StoreMut::drop_index
StoreMut_drop_index_fetch(h, t, name) ==
    /\ pc[h] = "idle"
    /\ txn = 0
    /\ LET f == ReadSchema(store, t)
           rows == ScanData(store, t)
           out(res) ==
               Return(h, Outcome(h, "StoreMut::drop_index", name, res,
                                 FALSE, FALSE, 0))
       IN  IF f.err # "Ok" THEN out(f.err)
           ELSE IF f.schema = <<>> THEN out("TableNotFound")
           ELSE IF ~Declares(f.schema[1].indexes, name)
                THEN out("IndexNameDoesNotExist")
           ELSE IF rows.err # "Ok" THEN out(rows.err)
           ELSE Goto(h, "StoreMut_drop_index",
                    [NoLoc EXCEPT
                       !.table = t, !.name = name,
                       !.indexes = WithoutName(f.schema[1].indexes, name),
                       !.rows = rows.rows])
    /\ UNCHANGED <<store, idCounter, txidCounter, lockLive, txn>>

\* the transaction: the serialized schema, then index_sync.delete per row,
\* with the IndexSync built from the schema after the removal
StoreMut_drop_index(h) ==
    /\ pc[h] = "StoreMut_drop_index"
    /\ txn = 0
    /\ LET t == loc[h].table
           schema == MkSchema(t, loc[h].indexes)
           r == IndexSyncDeleteRows(
                    Put(store, SchemaKey(t), Serialize("Schema", schema)),
                    t, loc[h].indexes, loc[h].rows)
       IN  /\ Transaction(r)
           /\ Return(h, Outcome(h, "StoreMut::drop_index", loc[h].name, r.err,
                                FALSE, FALSE, 0))
    /\ UNCHANGED <<idCounter, txidCounter, lockLive, txn>>

\* ------------------------------------------------------- lock and txid
LockToken(txid) == Serialize("Lock", txid)

\* lock::acquire(tree, state): a conflict when the lock key holds a live
\* token, otherwise this writer's token is installed under a fresh txid
LockAcquire(s, live, counter) ==
    IF Has(s, LockKey) /\ live
    THEN [err |-> "LockConflict", s |-> s, txid |-> 0]
    ELSE [err |-> "Ok", s |-> Put(s, LockKey, LockToken(counter + 1)),
          txid |-> counter + 1]

\* the token under the lock key expires
LockExpire ==
    /\ lockLive
    /\ lockLive' = FALSE
    /\ last' = NoCall
    /\ UNCHANGED <<store, idCounter, txidCounter, txn, pc, loc>>

\* ------------------------------------------------ fetch_schema (IndexMut)
FetchSchema(s, t) ==
    IF ~Has(s, SchemaKey(t)) THEN [err |-> "Ok", snapshot |-> <<>>]
    ELSE LET d == Deserialize("Snapshot", s[SchemaKey(t)])
         IN  IF ~d.ok THEN [err |-> "Serialization", snapshot |-> <<>>]
             ELSE [err |-> "Ok", snapshot |-> <<d.v>>]

\* --------------------------------------------- IndexMut::create_index
\* scan_data, outside the transaction
IndexMut_create_index_scan(h, t, name, expr) ==
    /\ pc[h] = "idle"
    /\ txn = 0
    /\ LET rows == ScanData(store, t)
       IN  IF rows.err # "Ok"
           THEN Return(h, Outcome(h, "IndexMut::create_index", name, rows.err,
                                  FALSE, FALSE, 0))
           ELSE Goto(h, "IndexMut_create_index",
                    [NoLoc EXCEPT !.table = t, !.name = name, !.expr = expr,
                                  !.rows = rows.rows])
    /\ UNCHANGED <<store, idCounter, txidCounter, lockLive, txn>>

\* the closure starts with lock::acquire whose error is dropped: the closure
\* goes on whatever the lock key holds
IndexMut_create_index_acquire_unchecked(h) ==
    /\ pc[h] = "IndexMut_create_index"
    /\ txn = 0
    /\ txidCounter < MaxTxid
    /\ pc' = [pc EXCEPT ![h] = "IndexMut_create_index_txn"]
    /\ loc' = [loc EXCEPT ![h].txid = txidCounter + 1]
    /\ txidCounter' = txidCounter + 1
    /\ txn' = h
    /\ last' = NoCall
    /\ UNCHANGED <<store, idCounter, lockLive>>

\* the closure starts: lock::acquire
IndexMut_create_index_acquire(h) ==
    /\ pc[h] = "IndexMut_create_index"
    /\ txn = 0
    /\ txidCounter < MaxTxid
    /\ LET a == LockAcquire(store, lockLive, txidCounter)
       IN  IF a.err # "Ok"
           THEN /\ ReturnCreate(h, "IndexMut::create_index", a.err)
                /\ UNCHANGED <<txidCounter, txn>>
           ELSE /\ pc' = [pc EXCEPT ![h] = "IndexMut_create_index_txn"]
                /\ loc' = [loc EXCEPT ![h].txid = a.txid]
                /\ txidCounter' = a.txid
                /\ txn' = h
                /\ last' = NoCall
    /\ UNCHANGED <<store, idCounter, lockLive>>

\* the closure without the loop over the scanned rows: the schema and the
\* temp marker are written, the rows already stored get no index entry
CreateIndexClosureNoBuild(s, t, name, expr, rows, txid) ==
    LET f == FetchSchema(s, t)
    IN  IF f.err # "Ok" THEN [err |-> f.err, s |-> s]
        ELSE IF f.snapshot = <<>> THEN [err |-> "TableNotFound", s |-> s]
        ELSE LET del == SnapshotDelete(f.snapshot[1], txid)
             IN  IF del.value = <<>>
                 THEN [err |-> "ConflictTableNotFound", s |-> s]
                 ELSE IF Declares(del.value[1].indexes, name)
                 THEN [err |-> "IndexNameAlreadyExists", s |-> s]
                 ELSE LET schema == [table_name |-> t,
                                     column_defs |-> del.value[1].column_defs,
                                     indexes |-> Append(del.value[1].indexes,
                                                   SchemaIndex(name, expr))]
                          snap == SnapshotUpdate(del.snapshot, txid, schema)
                      IN  [err |-> "Ok",
                           s |-> Put(Put(s, SchemaKey(t),
                                         Serialize("Snapshot", snap)),
                                     TempSchemaKey(txid, t),
                                     KeyBytes(SchemaKey(t)))]

\* the closure after lock::acquire, on the view that holds the lock token
CreateIndexClosure(s, t, name, expr, rows, txid) ==
    LET f == FetchSchema(s, t)
    IN  IF f.err # "Ok" THEN [err |-> f.err, s |-> s]
        ELSE IF f.snapshot = <<>> THEN [err |-> "TableNotFound", s |-> s]
        ELSE LET del == SnapshotDelete(f.snapshot[1], txid)
             IN  IF del.value = <<>>
                 THEN [err |-> "ConflictTableNotFound", s |-> s]
                 ELSE IF Declares(del.value[1].indexes, name)
                 THEN [err |-> "IndexNameAlreadyExists", s |-> s]
                 ELSE LET index == SchemaIndex(name, expr)
                          schema == [table_name |-> t,
                                     column_defs |-> del.value[1].column_defs,
                                     indexes |-> Append(del.value[1].indexes,
                                                        index)]
                          snap == SnapshotUpdate(del.snapshot, txid, schema)
                          r == InsertIndexRows(s, t, index, rows)
                      IN  IF r.err # "Ok" THEN r
                          ELSE [err |-> "Ok",
                                s |-> Put(Put(r.s, SchemaKey(t),
                                              Serialize("Snapshot", snap)),
                                          TempSchemaKey(txid, t),
                                          KeyBytes(SchemaKey(t)))]

\* the rest of the closure and the commit or abort of the transaction
IndexMut_create_index(h) ==
    /\ pc[h] = "IndexMut_create_index_txn"
    /\ txn = h
    /\ LET r == CreateIndexClosure(
                    Put(store, LockKey, LockToken(loc[h].txid)),
                    loc[h].table, loc[h].name, loc[h].expr, loc[h].rows,
                    loc[h].txid)
       IN  /\ Transaction(r)
           /\ lockLive' = IF r.err = "Ok" THEN TRUE ELSE lockLive
           /\ ReturnCreate(h, "IndexMut::create_index", r.err)
    /\ txn' = 0
    /\ UNCHANGED <<idCounter, txidCounter>>

\* ----------------------------------------------- IndexMut::drop_index
IndexMut_drop_index_scan(h, t, name) ==
    /\ pc[h] = "idle"
    /\ txn = 0
    /\ LET rows == ScanData(store, t)
       IN  IF rows.err # "Ok"
           THEN Return(h, Outcome(h, "IndexMut::drop_index", name, rows.err,
                                  FALSE, FALSE, 0))
           ELSE Goto(h, "IndexMut_drop_index",
                    [NoLoc EXCEPT !.table = t, !.name = name,
                                  !.rows = rows.rows])
    /\ UNCHANGED <<store, idCounter, txidCounter, lockLive, txn>>

IndexMut_drop_index_acquire(h) ==
    /\ pc[h] = "IndexMut_drop_index"
    /\ txn = 0
    /\ txidCounter < MaxTxid
    /\ LET a == LockAcquire(store, lockLive, txidCounter)
       IN  IF a.err # "Ok"
           THEN /\ Return(h, Outcome(h, "IndexMut::drop_index", loc[h].name,
                                     a.err, FALSE, FALSE, 0))
                /\ UNCHANGED <<txidCounter, txn>>
           ELSE /\ pc' = [pc EXCEPT ![h] = "IndexMut_drop_index_txn"]
                /\ loc' = [loc EXCEPT ![h].txid = a.txid]
                /\ txidCounter' = a.txid
                /\ txn' = h
                /\ last' = NoCall
    /\ UNCHANGED <<store, idCounter, lockLive>>

DropIndexClosure(s, t, name, rows, txid) ==
    LET f == FetchSchema(s, t)
    IN  IF f.err # "Ok" THEN [err |-> f.err, s |-> s]
        ELSE IF f.snapshot = <<>> THEN [err |-> "TableNotFound", s |-> s]
        ELSE LET del == SnapshotDelete(f.snapshot[1], txid)
             IN  IF del.value = <<>>
                 THEN [err |-> "ConflictTableNotFound", s |-> s]
                 ELSE IF ~Declares(del.value[1].indexes, name)
                 THEN [err |-> "IndexNameDoesNotExist", s |-> s]
                 ELSE LET index == FirstNamed(del.value[1].indexes, name)
                          schema == [table_name |-> t,
                                     column_defs |-> del.value[1].column_defs,
                                     indexes |-> WithoutName(
                                         del.value[1].indexes, name)]
                          snap == SnapshotUpdate(del.snapshot, txid, schema)
                          r == DeleteIndexRows(s, t, index, rows)
                      IN  IF r.err # "Ok" THEN r
                          ELSE [err |-> "Ok",
                                s |-> Put(Put(r.s, SchemaKey(t),
                                              Serialize("Snapshot", snap)),
                                          TempSchemaKey(txid, t),
                                          KeyBytes(SchemaKey(t)))]

IndexMut_drop_index(h) ==
    /\ pc[h] = "IndexMut_drop_index_txn"
    /\ txn = h
    /\ LET r == DropIndexClosure(
                    Put(store, LockKey, LockToken(loc[h].txid)),
                    loc[h].table, loc[h].name, loc[h].rows, loc[h].txid)
       IN  /\ Transaction(r)
           /\ lockLive' = IF r.err = "Ok" THEN TRUE ELSE lockLive
           /\ Return(h, Outcome(h, "IndexMut::drop_index", loc[h].name, r.err,
                                FALSE, FALSE, 0))
    /\ txn' = 0
    /\ UNCHANGED <<idCounter, txidCounter>>

\* ---------------------------------------------------------- specifications
Dml(h) ==
    \/ \E t \in Tables : insert_data_new(h, t)
    \/ \E rows \in RowLists : insert_data(h, rows)
    \/ \E t \in Tables : update_data_new(h, t)
    \/ \E pairs \in UpdateLists(loc[h].table) : update_data(h, pairs)
    \/ \E t \in Tables : delete_data_new(h, t)
    \/ \E keys \in KeyLists(loc[h].table) : delete_data(h, keys)

StoreCreate(h) ==
    \/ \E t \in Tables, name \in IndexNames, expr \in Exprs :
           StoreMut_create_index_fetch(h, t, name, expr)
    \/ StoreMut_create_index(h)

StoreDrop(h) ==
    \/ \E t \in Tables, name \in IndexNames :
           StoreMut_drop_index_fetch(h, t, name)
    \/ StoreMut_drop_index(h)

IndexCreate(h) ==
    \/ \E t \in Tables, name \in IndexNames, expr \in Exprs :
           IndexMut_create_index_scan(h, t, name, expr)
    \/ IndexMut_create_index_acquire(h)
    \/ IndexMut_create_index(h)

IndexDrop(h) ==
    \/ \E t \in Tables, name \in IndexNames :
           IndexMut_drop_index_scan(h, t, name)
    \/ IndexMut_drop_index_acquire(h)
    \/ IndexMut_drop_index(h)

Ddl(h) == StoreCreate(h) \/ StoreDrop(h) \/ IndexCreate(h) \/ IndexDrop(h)

Schemas(h) ==
    \/ \E schema \in CallerSchemas : insert_schema(h, schema)
    \/ \E t \in Tables : delete_schema(h, t)

\* one handle, row-level calls only
NextDml == Dml(1)

SpecDml == Init /\ [][NextDml]_vars

\* one handle, every call
NextSeq == Dml(1) \/ Ddl(1) \/ Schemas(1) \/ LockExpire

SpecSeq == Init /\ [][NextSeq]_vars

\* one handle: the row-level calls, insert_schema and delete_schema
NextSchema == Dml(1) \/ Schemas(1)

SpecSchema == Init /\ [][NextSchema]_vars

\* every handle, every call
Next == (\E h \in Handles : Dml(h) \/ Ddl(h) \/ Schemas(h)) \/ LockExpire

Spec == Init /\ [][Next]_vars

Inserts(h) ==
    \/ \E t \in Tables : insert_data_new(h, t)
    \/ \E rows \in RowLists : insert_data(h, rows)

\* one handle: rows are inserted, indexes created and dropped by IndexMut
NextIx == Inserts(1) \/ IndexCreate(1) \/ IndexDrop(1) \/ LockExpire

SpecIx == Init /\ [][NextIx]_vars

\* the handles run create_index and drop_index at the same time
NextConc == (\E h \in Handles : Ddl(h)) \/ LockExpire

SpecConc == Init /\ [][NextConc]_vars

Retries(h) ==
    \/ \E rows \in RowLists : insert_data_conflict(h, rows)
    \/ insert_data_retried(h)

\* the handles run insert_data at the same time, and the store may run a
\* closure again
NextInsert == \E h \in Handles : Inserts(h) \/ Retries(h)

SpecInsert == Init /\ [][NextInsert]_vars

\* one handle: rows are inserted, indexes created by IndexMut, and the table
\* is dropped
NextTable ==
    \/ Inserts(1)
    \/ IndexCreate(1)
    \/ \E t \in Tables : delete_schema(1, t)
    \/ LockExpire

SpecTable == Init /\ [][NextTable]_vars

\* one handle runs insert_data, and the store may run its closure again
NextRetry == Inserts(1) \/ Retries(1)

SpecRetry == Init /\ [][NextRetry]_vars

\* one handle runs IndexMut's create_index while the other runs insert_data
NextRace == IndexCreate(1) \/ Inserts(2) \/ LockExpire

SpecRace == Init /\ [][NextRace]_vars

\* the handles run create_index at the same time
NextCreate == (\E h \in Handles : StoreCreate(h) \/ IndexCreate(h)) \/ LockExpire

SpecCreate == Init /\ [][NextCreate]_vars

\* ================================================================== claims
\* the indexes of the committed schema of a table, none when it has none
StoredIndexes(s, t) == IndexSyncNew(s, t).indexes

\* the index keys the stored rows of a table call for under its schema
ExpectedIndexKeys(s, t) ==
    {IndexKey(t, StoredIndexes(s, t)[i].name,
              Evaluate(StoredIndexes(s, t)[i].expr, s[k].v).v, k.id) :
        i \in 1..Len(StoredIndexes(s, t)), k \in DataKeys(s, t)}

\* C1: after any sequence of insert_data, update_data and delete_data calls of
\* one handle on a table, every stored row has, for every index the committed
\* schema declares, exactly one index entry, under the key built from the
\* index expression evaluated on the stored row and the row id, and there is
\* no index entry whose row is not stored.
C1_IndexEntriesMatchRows ==
    \A t \in Tables :
        /\ IndexKeys(store, t) = ExpectedIndexKeys(store, t)
        /\ \A k \in IndexKeys(store, t) :
               store[k] = IndexValue(DataKey(t, k.id))
        /\ \A k \in DataKeys(store, t) :
               \A i \in 1..Len(StoredIndexes(store, t)) :
                   Evaluate(StoredIndexes(store, t)[i].expr, store[k].v).ok

\* an update_data call has just committed, leaving two rows that differ in
\* column a under a schema with two indexes
C1_Witness ==
    /\ last.op = "update_data" /\ last.res = "Ok"
    /\ Len(StoredIndexes(store, "t")) = 2
    /\ \E k1, k2 \in DataKeys(store, "t") : store[k1].v[1] # store[k2].v[1]

\* C8 as stated: an update_data call whose list has a pair with no stored row
\* aborts with ConflictOnEmptyIndexValueUpdate and changes nothing.
C8_MissingKeyAlwaysConflict ==
    [][(last'.op = "update_data" /\ last'.f1)
         => (last'.res = "ConflictOnEmptyIndexValueUpdate" /\ store' = store)
      ]_vars

\* C8 amended: an update_data call whose list has a pair with no stored row
\* aborts and changes nothing; the error is ConflictOnEmptyIndexValueUpdate
\* when every pair before the first such pair is processed without error, and
\* the error of the earlier pair otherwise.
C8_MissingKeyAborts ==
    [][(last'.op = "update_data" /\ last'.f1)
         => /\ store' = store
            /\ last'.res \in {"ConflictOnEmptyIndexValueUpdate",
                              "EvaluateError"}
            /\ last'.f2 <=> (last'.res = "ConflictOnEmptyIndexValueUpdate")
      ]_vars

\* an update_data call has just aborted on the second pair of its list, whose
\* key has no stored row, after the first pair was processed
C8_Witness ==
    /\ last.op = "update_data" /\ last.f1 /\ last.f2 /\ last.n = 2
    /\ last.res = "ConflictOnEmptyIndexValueUpdate"

\* C9: a delete_data call whose list has a key with no stored row when it is
\* processed (never stored, already deleted, or an earlier key of the list
\* again) aborts with ConflictOnEmptyIndexValueDelete and changes nothing.
C9_AbsentKeyConflict ==
    [][(last'.op = "delete_data" /\ last'.f1)
         => (last'.res = "ConflictOnEmptyIndexValueDelete" /\ store' = store)
      ]_vars

\* a delete_data call has just aborted on the second key of its list, which
\* is its first key again, and the row is still stored
C9_Witness ==
    /\ last.op = "delete_data" /\ last.f1 /\ last.f2 /\ last.n = 2
    /\ last.res = "ConflictOnEmptyIndexValueDelete"
    /\ DataKeys(store, "t") # {}

\* what a committed insert_data of `rows` leaves of store s, ids from id + 1
InsertedStore(s, id, t, indexes, rows, s2) ==
    LET newData == {DataKey(t, id + i) : i \in 1..Len(rows)}
        newIndex == {IndexKey(t, indexes[j].name,
                              Evaluate(indexes[j].expr, rows[i]).v, id + i) :
                        i \in 1..Len(rows), j \in 1..Len(indexes)}
    IN  /\ Cardinality(newData) = Len(rows)
        /\ (newData \cup newIndex) \cap DOMAIN s = {}
        /\ DOMAIN s2 = DOMAIN s \cup newData \cup newIndex
        /\ \A k \in DOMAIN s : s2[k] = s[k]
        /\ \A i \in 1..Len(rows) :
               s2[DataKey(t, id + i)] = Serialize("Row", rows[i])
        /\ \A k \in newIndex : s2[k] = IndexValue(DataKey(t, k.id))

\* C10: insert_data of a list of rows is atomic: when it fails at a row, no
\* row and no index entry of any row of the list is stored; when it succeeds,
\* every row of the list is stored under a fresh row key of its own together
\* with its index entries.
C10_InsertAtomic ==
    [][\A h \in Handles : \A rows \in RowLists :
          (pc[h] = "insert_data" /\ insert_data(h, rows))
            => IF last'.res = "Ok"
               THEN InsertedStore(store, idCounter, loc[h].table,
                                  loc[h].indexes, rows, store')
               ELSE store' = store
      ]_vars

\* an insert_data call has just failed at the second row of its list, after
\* the first row was processed
C10_Witness ==
    /\ last.op = "insert_data" /\ last.res = "EvaluateError" /\ last.n = 2

\* the value under schema/<table>, in either format, declares the index name
DeclaredAt(s, t, name) ==
    /\ Has(s, SchemaKey(t))
    /\ \/ /\ s[SchemaKey(t)].ty = "Schema"
          /\ Declares(s[SchemaKey(t)].v.indexes, name)
       \/ /\ s[SchemaKey(t)].ty = "Snapshot"
          /\ s[SchemaKey(t)].v.cur # <<>>
          /\ Declares(s[SchemaKey(t)].v.cur[1].indexes, name)

\* the index entries of a table under one index name
EntriesOf(s, t, name) == {k \in IndexKeys(s, t) : k.name = name}

CreateOps == {"StoreMut::create_index", "IndexMut::create_index"}

DropOps == {"StoreMut::drop_index", "IndexMut::drop_index"}

\* C2: a drop_index(table, name) that commits leaves no index entry of the
\* table under that name and a schema that no longer declares the name; the
\* entries of the indexes the schema still declares are unchanged.
C2_DropIndexRemovesEntries ==
    [][(last'.op \in DropOps /\ last'.res = "Ok")
         => LET t == loc[last'.h].table
                name == last'.name
            IN  /\ EntriesOf(store', t, name) = {}
                /\ ~DeclaredAt(store', t, name)
                /\ \A k \in IndexKeys(store, t) \cup IndexKeys(store', t) :
                       (k.name # name /\ DeclaredAt(store', t, k.name))
                         => /\ Has(store, k) /\ Has(store', k)
                            /\ store'[k] = store[k]
      ]_vars

\* C3: every value stored under schema/<table> is a serialized Snapshot
\* Record, so a create_index or drop_index issued after insert_schema reads
\* and unwraps it and does not abort on deserialization.
C3_SchemaValueIsSnapshot ==
    /\ \A t \in Tables :
           Has(store, SchemaKey(t))
             => Deserialize("Snapshot", store[SchemaKey(t)]).ok
    /\ ~(/\ last.op \in {"IndexMut::create_index", "IndexMut::drop_index"}
         /\ last.res = "Serialization")

\* C4: IndexMut's create_index is all-or-nothing.  When it commits, the
\* schema under schema/<table> declares the name, every row of its scan has
\* an index entry under the name at the value of the expression on the row,
\* and the temp marker of its txid and table holds the schema key.  When it
\* aborts, the store is as it was: no schema change, no index entry, no temp
\* marker and no lock token.
C4_CreateIndexAllOrNothing ==
    [][(last'.op = "IndexMut::create_index")
         => LET h == last'.h
                t == loc[h].table
                rows == loc[h].rows
            IN  IF last'.res = "Ok"
                THEN /\ FetchSchema(store', t).err = "Ok"
                     /\ DeclaredAt(store', t, last'.name)
                     /\ \A i \in 1..Len(rows) :
                            /\ Evaluate(loc[h].expr, rows[i][2]).ok
                            /\ Has(store',
                                   IndexKey(t, last'.name,
                                            Evaluate(loc[h].expr,
                                                     rows[i][2]).v,
                                            rows[i][1].id))
                     /\ Has(store', TempSchemaKey(loc[h].txid, t))
                     /\ store'[TempSchemaKey(loc[h].txid, t)]
                          = KeyBytes(SchemaKey(t))
                ELSE store' = store
      ]_vars

\* IndexMut's create_index has just committed on a table of two rows, and
\* both rows have their entry under the new name
C4_Witness ==
    /\ last.op = "IndexMut::create_index" /\ last.res = "Ok"
    /\ Cardinality(DataKeys(store, "t")) = 2
    /\ Cardinality(EntriesOf(store, "t", last.name)) = 2
    /\ TempKeys(store) # {}

\* C5: of the create_index calls that run at the same time for the same
\* table and index name, one commits: no call commits after a call it
\* overlaps with, for the same table and name, has committed.
C5_OneCreateCommits ==
    ~(last.op \in CreateOps /\ last.res = "Ok" /\ last.f1)

\* the handles inside the closure of a structural transaction, after
\* lock::acquire and before the commit or abort
LockHolders ==
    {h \in Handles :
        pc[h] \in {"IndexMut_create_index_txn", "IndexMut_drop_index_txn"}}

\* C6: with the handles running create_index and drop_index at the same
\* time, at most one uncommitted structural transaction holds the lock, and
\* a structural transaction that finds the lock key present and live aborts
\* with a conflict error and writes nothing.
C6_OneLockHolder ==
    [][/\ Cardinality(LockHolders) <= 1
       /\ Cardinality(LockHolders') <= 1
       /\ \A h \in Handles :
              (/\ pc[h] \in {"IndexMut_create_index", "IndexMut_drop_index"}
               /\ pc'[h] # pc[h]
               /\ Has(store, LockKey) /\ lockLive)
                => /\ pc'[h] = "idle"
                   /\ last'.h = h /\ last'.res = "LockConflict"
                   /\ store' = store
      ]_vars

\* a structural transaction has just aborted on the live lock while the
\* other handle is inside a create_index or drop_index call
C6_Witness ==
    /\ last.res = "LockConflict"
    /\ Has(store, LockKey) /\ lockLive
    /\ \E g \in Handles \ {last.h} : pc[g] # "idle"

\* C7: IndexMut's create_index with a name the stored schema declares, the
\* lock not being held, fails with IndexNameAlreadyExists and leaves the
\* store as it was.
C7_DuplicateNameRejected ==
    [][(/\ last'.op = "IndexMut::create_index"
        /\ DeclaredAt(store, loc[last'.h].table, last'.name)
        /\ ~(Has(store, LockKey) /\ lockLive))
         => (last'.res = "IndexNameAlreadyExists" /\ store' = store)
      ]_vars

\* C11: with one handle, after insert_schema, any sequence of insert_data,
\* update_data and delete_data, and then a delete_schema of the table that
\* returns Ok, the store holds no key under data/<table>/ and no
\* schema/<table> key.
C11_DeleteSchemaLeavesNothing ==
    [][(last'.op = "delete_schema" /\ last'.res = "Ok")
         => \A t \in Tables :
                /\ DataKeys(store', t) = {}
                /\ ~Has(store', SchemaKey(t))
      ]_vars

\* delete_schema has just returned on a table whose schema was written by
\* insert_schema and that held rows
C11_Witness ==
    /\ last.op = "delete_schema" /\ last.res = "Ok"
    /\ last.f1 /\ last.n >= 1
    /\ DataKeys(store, "t") = {}

\* C12: update_data whose new rows are the rows stored under their keys
\* returns Ok and leaves the whole store, row records and index entries, as
\* it was before the call.
C12_UpdateSameRowNoOp ==
    [][(last'.op = "update_data" /\ last'.same)
         => (last'.res = "Ok" /\ store' = store)
      ]_vars

\* update_data has just returned from a list of two pairs, each with the row
\* stored under its key, on a table with two indexes
C12_Witness ==
    /\ last.op = "update_data" /\ last.same
    /\ Len(StoredIndexes(store, "t")) = 2
    /\ Cardinality(IndexKeys(store, "t")) = 4

IndexMutOps == {"IndexMut::create_index", "IndexMut::drop_index"}

\* the value under schema/<table> is a Snapshot Record with no current value
Tombstoned(s, t) ==
    /\ Has(s, SchemaKey(t))
    /\ s[SchemaKey(t)].ty = "Snapshot"
    /\ s[SchemaKey(t)].v.cur = <<>>

\* C13: IndexMut's create_index and drop_index on a table whose schema key is
\* absent abort with TableNotFound, and on a table whose schema key holds a
\* Snapshot Record with no current value abort with ConflictTableNotFound;
\* the store is unchanged in both cases.
C13_MissingTableErrors ==
    [][(last'.op \in IndexMutOps /\ loc[last'.h].table # "")
         => LET t == loc[last'.h].table
            IN  /\ ~Has(store, SchemaKey(t))
                      => (last'.res = "TableNotFound" /\ store' = store)
                /\ Tombstoned(store, t)
                      => (last'.res = "ConflictTableNotFound"
                          /\ store' = store)
      ]_vars

\* the index entries of one row of a table under one index name
EntriesOfRow(s, t, name, id) ==
    {k \in IndexKeys(s, t) : k.name = name /\ k.id = id}

\* C14: with one handle running create_index and the other insert_data on
\* the same table, under any interleaving, once both calls have returned
\* every stored row has exactly one index entry for every index the
\* committed schema declares, at the value of the expression on the row.
C14_RowsIndexedAfterRace ==
    (\A h \in Handles : pc[h] = "idle")
      => \A t \in Tables : \A k \in DataKeys(store, t) :
             \A i \in 1..Len(StoredIndexes(store, t)) :
                 EntriesOfRow(store, t, StoredIndexes(store, t)[i].name, k.id)
                   = {IndexKey(t, StoredIndexes(store, t)[i].name,
                               Evaluate(StoredIndexes(store, t)[i].expr,
                                        store[k].v).v, k.id)}

DmlOps == {"insert_data", "update_data", "delete_data"}

\* C15: no insert_data, update_data or delete_data transaction commits index
\* writes computed from a schema that is no longer the committed schema of
\* the table: when it commits, the indexes its IndexSync was built from are
\* the indexes of the committed schema.
C15_DmlUsesCommittedSchema ==
    [][(/\ last'.op \in DmlOps /\ last'.res = "Ok"
        /\ pc[last'.h] \in DmlOps)
         => loc[last'.h].indexes
              = StoredIndexes(store, loc[last'.h].table)
      ]_vars

C19_RetrySameAsSingleRun ==
    [][\A h \in Handles :
          (/\ pc[h] = "insert_data_retry"
           /\ pc'[h] = "idle"
           /\ last'.res = "Ok")
            => LET r == InsertRows(store, loc[h].first, loc[h].table,
                                   loc[h].indexes, loc[h].rows)
               IN  store' = r.s /\ idCounter' = r.id
      ]_vars

\* C17: the lock is held only inside the body of a structural transaction:
\* no create_index or drop_index is rejected with a lock conflict while no
\* structural transaction is running, that is, because of a transaction
\* that has already committed or aborted.
C17_NoConflictAfterFinish ==
    ~(last.op \in IndexMutOps /\ last.res = "LockConflict"
      /\ LockHolders = {})

\* C18: temp markers do not outlive their transaction: no temp_schema key is
\* in the store once the create_index or drop_index transaction that wrote
\* it has committed.
C18_NoTempMarkers ==
    LockHolders = {} => TempKeys(store) = {}

====
